---- MODULE Spec2Model ----
(***************************************************************************)
(* A model of app_movies.py: the Streamlit script that loads and cleans    *)
(* movies_updated.csv (load_data), filters it by the sidebar widgets       *)
(* (filter_data) and renders a table, a CSV export, three charts and a     *)
(* detail view.  One action per section of the script; a rerun (Streamlit  *)
(* runs the whole script again on every widget interaction) starts again   *)
(* at load_data, which is cached.                                          *)
(*                                                                         *)
(* Numbers.  A float is modelled in fixed point with three decimals: the   *)
(* integer v stands for v / 1000.  A float cell of a frame is the record   *)
(* [nan, v]; NaN is pandas' missing marker.                                *)
(* Text.  director and star are sequences of one-character strings; the    *)
(* empty sequence is the missing value (read_csv reads an empty field as   *)
(* NaN, so an empty text never is a value).  name and genre are atomic     *)
(* strings and "NaN" is their missing value (read_csv reads the text NaN   *)
(* as missing too).                                                        *)
(***************************************************************************)
EXTENDS Integers, Sequences, FiniteSets, TLC

VARIABLES
    source,        \* the rows of movies_updated.csv, as read_csv finds them
    cache,         \* st.cache_data's entry for load_data()
    session,       \* the widgets' values kept by Streamlit between reruns
    pc,            \* the section of the script that runs next
    error,         \* the exception that ended this run, or "none"
    df,            \* the script's df (line 24)
    criteria,      \* score_min, score_max, search_type, search_keyword, selected_genres
    filtered_df,   \* the script's filtered_df (line 73)
    table_view,    \* the frame handed to st.dataframe (line 82)
    csv,           \* the download button's data (line 86), when offered
    box_data,      \* chart 1: per genre, its scores (lines 102-103)
    high_perf,     \* chart 2: the annotated movies (line 130)
    yearly_data,   \* chart 3: the yearly averages (lines 153-156)
    movie_detail   \* the detail view's row (line 203)

vars == <<source, cache, session, pc, error, df, criteria, filtered_df,
          table_view, csv, box_data, high_perf, yearly_data, movie_detail>>

--------------------------------------------------------------------------
(* Bounds of the model *)

MaxRows == 2
MaxExtra == 2

(* Constants of the program *)

YearMin == 1980
YearMax == 1989
Million == 1000000
TopN == 5
Decimals == 2
HighScore == 8
HighGross == 300
DefaultScoreMin == 6
DefaultScoreMax == 8

\* fixed point: three decimals
Scale == 10 * 10 * 10

--------------------------------------------------------------------------
(* Values *)

NaN == [nan |-> TRUE, v |-> 0]
F(x) == [nan |-> FALSE, v |-> x]

NaNStr == "NaN"
NaNText == <<>>

\* A cell of the CSV file in a numeric column: a number, a text that is no
\* number, or nothing.
NumCell(x) == [kind |-> "num", num |-> x]
TextCell == [kind |-> "text", num |-> 0]
MissingCell == [kind |-> "missing", num |-> 0]

RECURSIVE SeqSum(_)
SeqSum(s) == IF s = <<>> THEN 0 ELSE Head(s) + SeqSum(Tail(s))

Abs(x) == IF x < 0 THEN -x ELSE x

--------------------------------------------------------------------------
(* load_data: lines 11-22 *)

\* read_csv's dtype of a numeric column: a float or int column when every
\* cell is a number or missing, an object column of strings otherwise.
IsObjectColumn(src, col) == \E i \in 1..Len(src) : src[i][col].kind = "text"

\* read_csv's dtype of a text column: object when some cell holds a text (or
\* the file has no rows), float64 (all NaN) otherwise.
IsStringColumn(src, col) ==
    Len(src) = 0 \/ \E i \in 1..Len(src) : src[i][col] # NaNText

\* A cell of a numeric column as a float: NaN when missing.
CellValue(c) == IF c.kind = "num" THEN F(c.num) ELSE NaN

\* Series.between(left, right): inclusive on both sides, False for NaN.
between(x, left, right) == ~x.nan /\ left <= x.v /\ x.v <= right

\* pd.to_numeric(errors='coerce'): what does not parse becomes NaN.
to_numeric(c) == IF c.kind = "num" THEN F(c.num) ELSE NaN

\* (a variant that leaves NaN in place)
fillna_skipped(x, value) == x

\* Series.fillna(value)
fillna(x, value) == IF x.nan THEN F(value) ELSE x

\* x / d, for a column of whole numbers x (the dollars of budget and gross)
\* and d a multiple of 1000: the quotient in fixed point, x * 1000 / d, worked
\* out as x / (d / 1000).  NaN stays NaN.
divide(x, d) == IF x.nan THEN NaN ELSE F(x.v \div (d \div Scale))

\* line 15: df[df['year'].between(1980, 1989)]
InDecade(r) == between(CellValue(r.year), YearMin * Scale, YearMax * Scale)

\* lines 16-18
CleanMoney(c) == divide(fillna(to_numeric(c), 0), Million)

CleanScore(c) == fillna(to_numeric(c), 0)

\* line 20: value_counts() counts the rows of each genre that is not missing
\* and lists the genres by falling count; genres of equal count stay in the
\* order of their first row.
GenreCount(rows, g) == Cardinality({i \in 1..Len(rows) : rows[i].genre = g})

FirstRow(rows, g) == CHOOSE i \in 1..Len(rows) :
    rows[i].genre = g /\ \A j \in 1..(i - 1) : rows[j].genre # g

GenresOf(rows) == {rows[i].genre : i \in 1..Len(rows)} \ {NaNStr}

\* (a variant that lists the genres by rising count)
RanksBeforeRising(rows, g, h) ==
    \/ GenreCount(rows, g) < GenreCount(rows, h)
    \/ /\ GenreCount(rows, g) = GenreCount(rows, h)
       /\ FirstRow(rows, g) < FirstRow(rows, h)

\* g comes before h in value_counts()
RanksBefore(rows, g, h) ==
    \/ GenreCount(rows, g) > GenreCount(rows, h)
    \/ /\ GenreCount(rows, g) = GenreCount(rows, h)
       /\ FirstRow(rows, g) < FirstRow(rows, h)

\* .head(5).index.tolist(): the genres with fewer than TopN genres before them
top_genres(rows) ==
    {g \in GenresOf(rows) :
        Cardinality({h \in GenresOf(rows) : RanksBefore(rows, h, g)}) < TopN}

\* line 21: df['genre'].where(df['genre'].isin(top_genres), 'Other')
GenreFiltered(g, top) == IF g \in top THEN g ELSE "Other"

CleanRow(r, top) ==
    [name |-> r.name,
     year |-> CellValue(r.year),
     genre |-> r.genre,
     score |-> CleanScore(r.score),
     director |-> r.director,
     star |-> r.star,
     budget |-> CleanMoney(r.budget),
     gross |-> CleanMoney(r.gross),
     genre_filtered |-> GenreFiltered(r.genre, top)]

RECURSIVE MapClean(_, _)
MapClean(rows, top) ==
    IF rows = <<>> THEN <<>>
    ELSE <<CleanRow(Head(rows), top)>> \o MapClean(Tail(rows), top)

\* read_csv's dtype of a numeric column is int64 when every cell is a whole
\* number, float64 when one is missing or has decimals.
IsIntColumn(src, col) ==
    \A i \in 1..Len(src) :
        src[i][col].kind = "num" /\ src[i][col].num % Scale = 0

NoFrame ==
    [err |-> "none", frame |-> <<>>, str_director |-> TRUE, str_star |-> TRUE,
     int_year |-> TRUE, int_score |-> TRUE]

\* The result of load_data(): the exception it raises, or the cleaned frame
\* with the dtypes of its columns.  Comparing an object column of strings
\* with 1980 raises TypeError.
load_data(src) ==
    IF IsObjectColumn(src, "year")
    THEN [NoFrame EXCEPT !.err = "TypeError"]
    ELSE LET decade == SelectSeq(src, InDecade)
         IN  [err |-> "none",
              frame |-> MapClean(decade, top_genres(decade)),
              str_director |-> IsStringColumn(src, "director"),
              str_star |-> IsStringColumn(src, "star"),
              int_year |-> IsIntColumn(src, "year"),
              int_score |-> IsIntColumn(src, "score")]

--------------------------------------------------------------------------
(* Sidebar widgets: lines 39-57 *)

\* line 52: df['genre_filtered'].unique()
genre_options(f) == {f[i].genre_filtered : i \in 1..Len(f)}

\* lines 43, 48-49, 56: the widgets' values before the user touches them
DefaultCriteria(f) ==
    [score_min |-> DefaultScoreMin * Scale,
     score_max |-> DefaultScoreMax * Scale,
     search_type |-> "Director",
     search_keyword |-> <<>>,
     selected_genres |-> genre_options(f)]

ScoreMinOf(f) == CHOOSE x \in {f[i].score.v : i \in 1..Len(f)} :
    \A i \in 1..Len(f) : x <= f[i].score.v

ScoreMaxOf(f) == CHOOSE x \in {f[i].score.v : i \in 1..Len(f)} :
    \A i \in 1..Len(f) : x >= f[i].score.v

\* The positions the user can try on the slider
ScoreVals == {0, 6 * Scale, 10 * Scale}

\* step of the slider (line 44): 0.1
SliderStep == Scale \div 10

\* lines 39-45: the slider offers min_value + k * step up to max_value
SliderValues(f) ==
    IF f = <<>> THEN {}
    ELSE {x \in ScoreVals :
            /\ ScoreMinOf(f) <= x
            /\ x <= ScoreMaxOf(f)
            /\ (x - ScoreMinOf(f)) % SliderStep = 0}

--------------------------------------------------------------------------
(* filter_data: lines 60-71 *)

lower(ch) == CASE ch = "A" -> "a" [] ch = "B" -> "b" [] OTHER -> ch

\* re: the pattern matches the text at offset i.  Of the pattern language
\* only "." (any character) is modelled; the other characters of the model
\* stand for themselves, compared without case (case=False).
MatchAt(pat, text, i) ==
    /\ i + Len(pat) - 1 <= Len(text)
    /\ \A j \in 1..Len(pat) :
          pat[j] = "." \/ lower(pat[j]) = lower(text[i + j - 1])

re_search(pat, text) == \E i \in 1..(Len(text) + 1) : MatchAt(pat, text, i)

\* Series.str.contains(pat, case=False, na=False): regex=True is the default
str_contains(text, pat) ==
    IF text = NaNText THEN FALSE ELSE re_search(pat, text)

\* (a variant that leaves out the lower end of the range)
ScoreMaskStrict(r, c) ==
    /\ ~r.score.nan
    /\ r.score.v > c.score_min
    /\ r.score.v <= c.score_max

\* line 62
ScoreMask(r, c) ==
    /\ ~r.score.nan
    /\ r.score.v >= c.score_min
    /\ r.score.v <= c.score_max

\* (a variant without line 64's test of the keyword)
KeywordMaskNoGuard(r, c) ==
    IF c.search_type = "Director"
    THEN str_contains(r.director, c.search_keyword)
    ELSE str_contains(r.star, c.search_keyword)

\* lines 64-68
KeywordMask(r, c) ==
    IF c.search_keyword = <<>> THEN TRUE
    ELSE IF c.search_type = "Director"
         THEN str_contains(r.director, c.search_keyword)
         ELSE str_contains(r.star, c.search_keyword)

\* line 70
GenreMask(r, c) == r.genre_filtered \in c.selected_genres

ScoreStage(f, c) == LET Keep(r) == ScoreMask(r, c) IN SelectSeq(f, Keep)
KeywordStage(f, c) == LET Keep(r) == KeywordMask(r, c) IN SelectSeq(f, Keep)
GenreStage(f, c) == LET Keep(r) == GenreMask(r, c) IN SelectSeq(f, Keep)

filter_data(f, c) == GenreStage(KeywordStage(ScoreStage(f, c), c), c)

\* .str of a column that is not of strings raises AttributeError
filter_raises(loaded, c) ==
    /\ c.search_keyword # <<>>
    /\ IF c.search_type = "Director" THEN ~loaded.str_director
       ELSE ~loaded.str_star

--------------------------------------------------------------------------
(* The data table: lines 80-82 *)

display_cols == <<"name", "year", "genre", "score", "director", "star",
                  "budget", "gross">>

RECURSIVE Pow10(_)
Pow10(n) == IF n = 0 THEN 1 ELSE 10 * Pow10(n - 1)

\* DataFrame.round(2): to the nearest hundredth, a tie to the even one
round(x, decimals) ==
    IF x.nan THEN NaN
    ELSE LET unit == Scale \div Pow10(decimals)
             q == x.v \div unit
             r == x.v % unit
         IN  IF 2 * r < unit \/ (2 * r = unit /\ q % 2 = 0)
             THEN F(q * unit) ELSE F((q + 1) * unit)

\* filtered_df[display_cols].round(2), one row
DisplayRow(r) ==
    [name |-> r.name,
     year |-> round(r.year, Decimals),
     genre |-> r.genre,
     score |-> round(r.score, Decimals),
     director |-> r.director,
     star |-> r.star,
     budget |-> round(r.budget, Decimals),
     gross |-> round(r.gross, Decimals)]

RECURSIVE MapDisplay(_)
MapDisplay(f) ==
    IF f = <<>> THEN <<>> ELSE <<DisplayRow(Head(f))>> \o MapDisplay(Tail(f))

--------------------------------------------------------------------------
(* The CSV export: lines 85-92 *)

\* The columns of df: those of the file, then the one line 21 adds.
Columns == display_cols \o <<"genre_filtered">>

IsNumberColumn(col) == col \in {"year", "score", "budget", "gross"}
IsTextColumn(col) == col \in {"director", "star"}

DigitChars == <<"0", "1", "2", "3", "4", "5", "6", "7", "8", "9">>

RECURSIVE Digits(_)
Digits(n) ==
    IF n < 10 THEN <<DigitChars[n + 1]>>
    ELSE Digits(n \div 10) \o <<DigitChars[(n % 10) + 1]>>

\* the decimals of a float's repr: as few as tell it, at least one
FracDigits(fr) ==
    LET d1 == fr \div 100
        d2 == (fr \div 10) % 10
        d3 == fr % 10
    IN  IF d3 # 0 THEN <<DigitChars[d1 + 1], DigitChars[d2 + 1], DigitChars[d3 + 1]>>
        ELSE IF d2 # 0 THEN <<DigitChars[d1 + 1], DigitChars[d2 + 1]>>
        ELSE <<DigitChars[d1 + 1]>>

\* to_csv's text of a number: nothing for NaN; an int64 column has no point
FormatNumber(x, is_int) ==
    IF x.nan THEN <<>>
    ELSE (IF x.v < 0 THEN <<"-">> ELSE <<>>)
         \o Digits(Abs(x.v) \div Scale)
         \o (IF is_int THEN <<>> ELSE <<".">> \o FracDigits(Abs(x.v) % Scale))

Has(t, ch) == \E i \in 1..Len(t) : t[i] = ch

\* (a variant that never quotes)
QuoteNever(t) == t

\* csv.QUOTE_MINIMAL: a field holding the delimiter goes between quotes
Quote(t) == IF Has(t, ",") THEN <<"\"">> \o t \o <<"\"">> ELSE t

\* to_csv's text of one cell of row r
FieldText(r, col, dt) ==
    IF col = "year" THEN FormatNumber(r.year, dt.int_year)
    ELSE IF col = "score" THEN FormatNumber(r.score, dt.int_score)
    ELSE IF IsNumberColumn(col) THEN FormatNumber(r[col], FALSE)
    ELSE IF IsTextColumn(col) THEN Quote(r[col])
    ELSE IF r[col] = NaNStr THEN <<>> ELSE <<r[col]>>

RECURSIVE Join(_)
Join(fields) ==
    IF Len(fields) = 0 THEN <<>>
    ELSE IF Len(fields) = 1 THEN fields[1]
    ELSE fields[1] \o <<",">> \o Join(Tail(fields))

CsvLine(r, cols, dt) == Join([i \in 1..Len(cols) |-> FieldText(r, cols[i], dt)])

HeaderLine(cols) == Join([i \in 1..Len(cols) |-> <<cols[i]>>])

\* filtered_df.to_csv(index=False): the header, then a line per row
to_csv(f, cols, dt) ==
    <<HeaderLine(cols)>> \o [i \in 1..Len(f) |-> CsvLine(f[i], cols, dt)]

--------------------------------------------------------------------------
(* The charts: lines 98-196 *)

\* Series.unique(): the values in the order of their first row
RECURSIVE unique(_)
unique(s) ==
    IF s = <<>> THEN <<>>
    ELSE LET rest == unique(SubSeq(s, 1, Len(s) - 1))
             last == s[Len(s)]
         IN  IF \E i \in 1..Len(rest) : rest[i] = last THEN rest
             ELSE Append(rest, last)

GenreColumn(f) == [i \in 1..Len(f) |-> f[i].genre_filtered]

\* line 103: the scores of genre g, without the missing ones
ScoresOf(f, g) ==
    LET Keep(r) == r.genre_filtered = g /\ ~r.score.nan
        rows == SelectSeq(f, Keep)
    IN  [i \in 1..Len(rows) |-> rows[i].score.v]

BoxData(f) ==
    LET genres == unique(GenreColumn(f))
    IN  [i \in 1..Len(genres) |->
            [genre |-> genres[i], scores |-> ScoresOf(f, genres[i])]]

\* line 130
IsHighPerf(r) ==
    /\ ~r.score.nan /\ r.score.v >= HighScore * Scale
    /\ ~r.gross.nan /\ r.gross.v >= HighGross * Scale

HighPerf(f) ==
    LET rows == SelectSeq(f, IsHighPerf)
    IN  [i \in 1..Len(rows) |-> rows[i].name]

RECURSIVE SortedSeq(_)
SortedSeq(S) ==
    IF S = {} THEN <<>>
    ELSE LET m == CHOOSE x \in S : \A y \in S : x <= y
         IN  <<m>> \o SortedSeq(S \ {m})

\* groupby('year'): the group keys, sorted; NaN keys are dropped
GroupKeys(f) == SortedSeq({f[i].year.v : i \in {j \in 1..Len(f) : ~f[j].year.nan}})

\* (a variant that sums and does not divide)
total(vals) ==
    LET Present(x) == ~x.nan
        xs == SelectSeq(vals, Present)
    IN  [nan |-> FALSE, num |-> SeqSum([i \in 1..Len(xs) |-> xs[i].v]), den |-> 1]

\* 'mean' over a group: the sum of the values that are not NaN over their
\* number, kept as the fraction num / den (NaN for none)
mean(vals) ==
    LET Present(x) == ~x.nan
        xs == SelectSeq(vals, Present)
    IN  IF xs = <<>> THEN [nan |-> TRUE, num |-> 0, den |-> 1]
        ELSE [nan |-> FALSE,
              num |-> SeqSum([i \in 1..Len(xs) |-> xs[i].v]),
              den |-> Len(xs)]

\* lines 153-156
YearlyData(f) ==
    LET keys == GroupKeys(f)
        Group(y) == LET In(r) == ~r.year.nan /\ r.year.v = y IN SelectSeq(f, In)
    IN  [k \in 1..Len(keys) |->
            LET g == Group(keys[k])
            IN  [year |-> F(keys[k]),
                 budget |-> mean([i \in 1..Len(g) |-> g[i].budget]),
                 gross |-> mean([i \in 1..Len(g) |-> g[i].gross])]]

--------------------------------------------------------------------------
(* The detail view: lines 200-227 *)

\* line 201: the names the select box offers
NameOptions(f) == [i \in 1..Len(f) |-> f[i].name]

\* line 203: filtered_df[filtered_df['name'] == selected_movie]; NaN equals
\* nothing, itself included
RowsNamed(f, n) ==
    LET Is(r) == r.name # NaNStr /\ r.name = n IN SelectSeq(f, Is)

--------------------------------------------------------------------------
(* The files the model reads *)

Row(n, y, g, s, d, st, b, gr) ==
    [name |-> n, year |-> y, genre |-> g, score |-> s, director |-> d,
     star |-> st, budget |-> b, gross |-> gr]

Year(y) == NumCell(y * Scale)

\* Rows that differ in what the filter, the charts and the export read
Rows ==
    {Row("A", Year(1985), "Action", NumCell(6000), <<"A", "b">>, <<"b", "a">>,
         NumCell(2346000), NumCell(350000000)),
     Row("B", Year(1985), "Comedy", MissingCell, NaNText, <<"b", ",", "a">>,
         TextCell, MissingCell),
     Row("A", Year(1986), "Action", NumCell(10000), <<"b", ".">>, NaNText,
         NumCell(1005000), NumCell(400000000)),
     Row(NaNStr, Year(1980), NaNStr, NumCell(11000), <<"a">>, <<"A", "b">>,
         NumCell(-1000000), NumCell(1000000)),
     Row("D", MissingCell, "Drama", NumCell(7125), <<"a", "b">>, <<"a">>,
         MissingCell, NumCell(2000000))}

Tables(S, n) == UNION {[1..k -> S] : k \in 0..n}

Sources == Tables(Rows, MaxRows)

\* Rows that differ in what load_data cleans
YearCells == {Year(1979), Year(1980), Year(1989), Year(1990), MissingCell, TextCell}

MoneyCells ==
    {<<NumCell(2346000), NumCell(0), NumCell(7500)>>,
     <<MissingCell, TextCell, MissingCell>>,
     <<TextCell, NumCell(1500000), TextCell>>,
     <<NumCell(-1000000), MissingCell, NumCell(6000)>>}

LoadRows ==
    {Row("A", y, "Action", m[3], <<"a">>, <<"b">>, m[1], m[2]) :
        y \in YearCells, m \in MoneyCells}

\* Files of more genres than TopN: one row of each genre, then some more
GenreNames == <<"Action", "Comedy", "Drama", "Horror", "Adventure", "Crime", "Other">>

\* the genres of the rows that follow: the first, the sixth, a seventh that
\* is called "Other", and none
ExtraGenres == {GenreNames[1], GenreNames[TopN + 1], GenreNames[TopN + 2], NaNStr}

GenreRow(g) ==
    Row("A", Year(1985), g, NumCell(7000), <<"a">>, <<"b">>, NumCell(1000000),
        NumCell(2000000))

GenreTables ==
    {[i \in 1..Len(gs) |-> GenreRow(gs[i])] :
        gs \in {SubSeq(GenreNames, 1, TopN + 1) \o extra :
                  extra \in Tables(ExtraGenres, MaxExtra)}}

LoadSources == Tables(LoadRows, MaxRows) \cup GenreTables

--------------------------------------------------------------------------
(* The script *)

NoCriteria ==
    [score_min |-> 0, score_max |-> 0, search_type |-> "Director",
     search_keyword |-> <<>>, selected_genres |-> {}]

NoSession == [rendered |-> FALSE, values |-> NoCriteria]

\* What a run of the script starts from: its variables unset
Fresh ==
    /\ pc' = "load"
    /\ error' = "none"
    /\ df' = NoFrame
    /\ criteria' = NoCriteria
    /\ filtered_df' = <<>>
    /\ table_view' = <<>>
    /\ csv' = <<>>
    /\ box_data' = <<>>
    /\ high_perf' = <<>>
    /\ yearly_data' = <<>>
    /\ movie_detail' = <<>>

Raise(e) ==
    /\ pc' = "error"
    /\ error' = e

InitWith(files) ==
    /\ source \in files
    /\ cache = [loaded |-> FALSE, result |-> NoFrame]
    /\ session = NoSession
    /\ pc = "load"
    /\ error = "none"
    /\ df = NoFrame
    /\ criteria = NoCriteria
    /\ filtered_df = <<>>
    /\ table_view = <<>>
    /\ csv = <<>>
    /\ box_data = <<>>
    /\ high_perf = <<>>
    /\ yearly_data = <<>>
    /\ movie_detail = <<>>

Init == InitWith(Sources)

InitLoad == InitWith(LoadSources)

\* (a variant that cleans the stored frame again on a hit)
cached_rescaled(c, src) ==
    IF c.loaded
    THEN [c.result EXCEPT !.frame =
            [i \in 1..Len(@) |-> [@[i] EXCEPT !.budget = divide(@, Million)]]]
    ELSE load_data(src)

\* st.cache_data: the stored result when there is one, else a call of
\* load_data
cached(c, src) == IF c.loaded THEN c.result ELSE load_data(src)

\* lines 10-24: df = load_data(), cached unless it raised
LoadData ==
    /\ pc = "load"
    /\ LET res == cached(cache, source)
       IN  IF res.err # "none"
           THEN /\ Raise(res.err)
                /\ UNCHANGED <<cache, df>>
           ELSE /\ cache' = [loaded |-> TRUE, result |-> res]
                /\ df' = res
                /\ pc' = "sidebar"
                /\ UNCHANGED error
    /\ UNCHANGED <<source, session, criteria, filtered_df, table_view, csv,
                   box_data, high_perf, yearly_data, movie_detail>>

\* the widgets' values: the defaults on a session's first run, afterwards
\* what the session holds
widget_values(s, f) == IF s.rendered THEN s.values ELSE DefaultCriteria(f)

\* lines 36-57 (the checks Streamlit itself makes of the slider's arguments
\* are not part of the script and are not modelled)
Sidebar ==
    /\ pc = "sidebar"
    /\ criteria' = widget_values(session, df.frame)
    /\ session' = [rendered |-> TRUE,
                   values |-> IF session.rendered THEN session.values
                              ELSE DefaultCriteria(df.frame)]
    /\ pc' = "filter"
    /\ UNCHANGED <<source, cache, error, df, filtered_df, table_view, csv,
                   box_data, high_perf, yearly_data, movie_detail>>

\* line 73
FilterData ==
    /\ pc = "filter"
    /\ IF filter_raises(df, criteria)
       THEN /\ Raise("AttributeError")
            /\ UNCHANGED filtered_df
       ELSE /\ filtered_df' = filter_data(df.frame, criteria)
            /\ pc' = "table"
            /\ UNCHANGED error
    /\ UNCHANGED <<source, cache, session, df, criteria, table_view, csv,
                   box_data, high_perf, yearly_data, movie_detail>>

\* lines 76-82
ShowTable ==
    /\ pc = "table"
    /\ table_view' = MapDisplay(filtered_df)
    /\ pc' = "export"
    /\ UNCHANGED <<source, cache, session, error, df, criteria, filtered_df,
                   csv, box_data, high_perf, yearly_data, movie_detail>>

\* lines 85-92
Export ==
    /\ pc = "export"
    /\ csv' = IF Len(filtered_df) > 0 THEN to_csv(filtered_df, Columns, df)
              ELSE <<>>
    /\ pc' = "chart1"
    /\ UNCHANGED <<source, cache, session, error, df, criteria, filtered_df,
                   table_view, box_data, high_perf, yearly_data, movie_detail>>

\* boxplot's check of its labels against its data: no data at all counts as
\* one empty series, and then no labels are too few
boxplot_raises(data) == Len(data) = 0

\* lines 98-112
Chart1 ==
    /\ pc = "chart1"
    /\ box_data' = BoxData(filtered_df)
    /\ IF boxplot_raises(box_data')
       THEN Raise("ValueError")
       ELSE /\ pc' = "chart2"
            /\ UNCHANGED error
    /\ UNCHANGED <<source, cache, session, df, criteria, filtered_df,
                   table_view, csv, high_perf, yearly_data, movie_detail>>

\* lines 116-146
Chart2 ==
    /\ pc = "chart2"
    /\ high_perf' = HighPerf(filtered_df)
    /\ pc' = "chart3"
    /\ UNCHANGED <<source, cache, session, error, df, criteria, filtered_df,
                   table_view, csv, box_data, yearly_data, movie_detail>>

\* lines 150-196
Chart3 ==
    /\ pc = "chart3"
    /\ yearly_data' = YearlyData(filtered_df)
    /\ pc' = "detail"
    /\ UNCHANGED <<source, cache, session, error, df, criteria, filtered_df,
                   table_view, csv, box_data, high_perf, movie_detail>>

\* lines 200-227: the select box holds one of the names (the first one until
\* the user picks another); no names, no selection
Detail ==
    /\ pc = "detail"
    /\ IF Len(filtered_df) = 0
       THEN /\ movie_detail' = <<>>
            /\ pc' = "done"
            /\ UNCHANGED error
       ELSE \E i \in 1..Len(filtered_df) :
              LET rows == RowsNamed(filtered_df, NameOptions(filtered_df)[i])
              IN  IF rows = <<>>
                  THEN /\ Raise("IndexError")
                       /\ UNCHANGED movie_detail
                  ELSE /\ movie_detail' = <<rows[1]>>
                       /\ pc' = "done"
                       /\ UNCHANGED error
    /\ UNCHANGED <<source, cache, session, df, criteria, filtered_df,
                   table_view, csv, box_data, high_perf, yearly_data>>

--------------------------------------------------------------------------
(* The user: every change of a widget runs the script again *)

MaxKeyword == 2

KeywordChars == {"A", "."}

Keywords == Tables(KeywordChars, MaxKeyword)

\* (the user acts on what a finished run shows)
Change(values) ==
    /\ session.rendered
    /\ pc \in {"done", "error"}
    /\ values # session.values
    /\ session' = [session EXCEPT !.values = values]
    /\ Fresh
    /\ UNCHANGED <<source, cache>>

MoveSlider ==
    \E lo, hi \in SliderValues(cache.result.frame) :
        /\ lo <= hi
        /\ Change([session.values EXCEPT !.score_min = lo, !.score_max = hi])

PickSearchType ==
    \E t \in {"Director", "Star"} :
        Change([session.values EXCEPT !.search_type = t])

TypeKeyword ==
    \E k \in Keywords :
        Change([session.values EXCEPT !.search_keyword = k])

SelectGenres ==
    \E gs \in SUBSET genre_options(cache.result.frame) :
        Change([session.values EXCEPT !.selected_genres = gs])

\* A new browser session: the widgets are back at their defaults, the cache
\* of load_data is the server's and stays
NewSession ==
    /\ pc # "load"
    /\ session' = NoSession
    /\ Fresh
    /\ UNCHANGED <<source, cache>>

Next ==
    \/ LoadData
    \/ Sidebar
    \/ FilterData
    \/ ShowTable
    \/ Export
    \/ Chart1
    \/ Chart2
    \/ Chart3
    \/ Detail
    \/ MoveSlider
    \/ PickSearchType
    \/ TypeKeyword
    \/ SelectGenres
    \/ NewSession

Spec == Init /\ [][Next]_vars

\* load_data alone, over files that differ in what it cleans
NextLoad == LoadData \/ NewSession

SpecLoad == InitLoad /\ [][NextLoad]_vars

\* load_data and filter_data over files of more genres than TopN, the user
\* changing the selection of genres
InitGenre == InitWith(GenreTables)

NextGenre ==
    \/ LoadData
    \/ Sidebar
    \/ FilterData
    \/ ShowTable
    \/ Export
    \/ Chart1
    \/ Chart2
    \/ Chart3
    \/ Detail
    \/ SelectGenres
    \/ NewSession

SpecGenre == InitGenre /\ [][NextGenre]_vars

--------------------------------------------------------------------------
(* Properties *)

Loaded == pc \notin {"load", "error"}

PostFilter == pc \in {"table", "export", "chart1", "chart2", "chart3", "detail", "done"}

PostExport == pc \in {"chart1", "chart2", "chart3", "detail", "done"}

PostCharts == pc \in {"detail", "done"}

RowSet(f) == {f[i] : i \in 1..Len(f)}

\* C1: once filter_data has run, a row of the cleaned table is in the result
\* exactly when its score lies in [score_min, score_max], ends included, it
\* passes the keyword stage and its genre_filtered is a selected genre; and
\* the three stages give the same result in each of their six orders.
C1_FilterIsConjunction ==
    PostFilter =>
        /\ \A r \in RowSet(df.frame) :
              r \in RowSet(filtered_df) <=>
                  /\ criteria.score_min <= r.score.v
                  /\ r.score.v <= criteria.score_max
                  /\ KeywordMask(r, criteria)
                  /\ r.genre_filtered \in criteria.selected_genres
        /\ filtered_df = GenreStage(ScoreStage(KeywordStage(df.frame, criteria), criteria), criteria)
        /\ filtered_df = KeywordStage(GenreStage(ScoreStage(df.frame, criteria), criteria), criteria)
        /\ filtered_df = KeywordStage(ScoreStage(GenreStage(df.frame, criteria), criteria), criteria)
        /\ filtered_df = ScoreStage(KeywordStage(GenreStage(df.frame, criteria), criteria), criteria)
        /\ filtered_df = ScoreStage(GenreStage(KeywordStage(df.frame, criteria), criteria), criteria)

\* A run whose filter kept a row with its score on the lower end of the
\* range and dropped another, under a keyword and a narrowed range.
C1_Witness ==
    /\ pc = "table"
    /\ criteria.search_keyword # <<>>
    /\ Len(filtered_df) = 1
    /\ Len(df.frame) = 2
    /\ filtered_df[1].score.v = criteria.score_min
    /\ criteria.score_min > 0

\* the keyword, letter for letter and without case, somewhere in the text
LiteralContains(text, kw) ==
    \E i \in 1..(Len(text) + 1) :
        /\ i + Len(kw) - 1 <= Len(text)
        /\ \A j \in 1..Len(kw) : lower(kw[j]) = lower(text[i + j - 1])

SearchedField(r, c) == IF c.search_type = "Director" THEN r.director ELSE r.star

\* C2: with a keyword given, a row passes the keyword stage exactly when the
\* field search_type names is present and holds the keyword as a literal
\* substring, without case; with no keyword every row passes.
C2_LiteralSubstring ==
    PostFilter =>
        \A r \in RowSet(df.frame) :
            KeywordMask(r, criteria) <=>
                \/ criteria.search_keyword = <<>>
                \/ /\ SearchedField(r, criteria) # NaNText
                   /\ LiteralContains(SearchedField(r, criteria), criteria.search_keyword)

RECURSIVE IsSubsequence(_, _)
IsSubsequence(a, b) ==
    IF a = <<>> THEN TRUE
    ELSE IF b = <<>> THEN FALSE
    ELSE IF Head(a) = Head(b) THEN IsSubsequence(Tail(a), Tail(b))
    ELSE IsSubsequence(a, Tail(b))

AllGenresSelected ==
    \A r \in RowSet(df.frame) : r.genre_filtered \in criteria.selected_genres

\* C3 as the specification states it: the filter with score_min = 0,
\* score_max = 10, no keyword and every genre selected returns the whole
\* cleaned table, and every result is a subsequence of the cleaned table.
C3_FullRangeReturnsAll ==
    PostFilter =>
        /\ IsSubsequence(filtered_df, df.frame)
        /\ (/\ criteria.score_min = 0
            /\ criteria.score_max = 10 * Scale
            /\ criteria.search_keyword = <<>>
            /\ AllGenresSelected) => filtered_df = df.frame

\* C3, amended: the filter with a score range that holds every score of the
\* cleaned table, no keyword and every genre selected returns the whole
\* cleaned table, rows and order; and every result of the filter is a
\* subsequence of the cleaned table.
C3_CoveringRangeReturnsAll ==
    PostFilter =>
        /\ IsSubsequence(filtered_df, df.frame)
        /\ (/\ \A r \in RowSet(df.frame) :
                  criteria.score_min <= r.score.v /\ r.score.v <= criteria.score_max
            /\ criteria.search_keyword = <<>>
            /\ AllGenresSelected) => filtered_df = df.frame

\* The range 0 to 10 set by the user over a table of two rows, all returned.
C3_Witness ==
    /\ pc = "table"
    /\ criteria.score_min = 0
    /\ criteria.score_max = 10 * Scale
    /\ criteria.search_keyword = <<>>
    /\ AllGenresSelected
    /\ Len(df.frame) = 2
    /\ filtered_df = df.frame
    /\ \E r \in RowSet(df.frame) : r.director = NaNText

\* the rows of the file whose year is a number from 1980 to 1989
YearInRange(r) ==
    /\ r.year.kind = "num"
    /\ YearMin * Scale <= r.year.num
    /\ r.year.num <= YearMax * Scale

\* C4: load_data does not fail on a year that is missing or no number, and
\* the cleaned table holds exactly the rows of the file whose year is in
\* 1980..1989, ends included.
C4_DecadeOnly ==
    pc # "load" =>
        /\ error = "none"
        /\ Len(df.frame) = Len(SelectSeq(source, YearInRange))
        /\ \A r \in RowSet(df.frame) :
              /\ ~r.year.nan
              /\ YearMin * Scale <= r.year.v
              /\ r.year.v <= YearMax * Scale

Parses(c) == c.kind = "num"

\* the cleaned value of a money cell: 0 when it does not parse, the millions
\* otherwise
MoneyCleaned(c, x) ==
    /\ ~x.nan
    /\ ~Parses(c) => x.v = 0
    /\ Parses(c) => x.v * (Million \div Scale) = c.num

ScoreCleaned(c, x) ==
    /\ ~x.nan
    /\ ~Parses(c) => x.v = 0
    /\ Parses(c) => x.v = c.num

\* C5 as the specification states it: after load_data budget, gross and score
\* are numbers, 0 for what was missing or did not parse, budget and gross in
\* millions, and in every row budget >= 0 and gross >= 0.
C5_NeverNegative ==
    (pc = "sidebar") =>
        LET raw == SelectSeq(source, YearInRange)
        IN  \A i \in 1..Len(df.frame) :
              /\ MoneyCleaned(raw[i].budget, df.frame[i].budget)
              /\ MoneyCleaned(raw[i].gross, df.frame[i].gross)
              /\ ScoreCleaned(raw[i].score, df.frame[i].score)
              /\ df.frame[i].budget.v >= 0
              /\ df.frame[i].gross.v >= 0

\* C5, amended: after load_data budget, gross and score are numbers, 0 for
\* what was missing or did not parse, budget and gross the raw value over
\* 1,000,000, score the raw value; budget >= 0 and gross >= 0 in every row
\* whose raw value is not a negative number.
C5_CleanedNumbers ==
    (pc = "sidebar") =>
        LET raw == SelectSeq(source, YearInRange)
        IN  /\ Len(raw) = Len(df.frame)
            /\ \A i \in 1..Len(df.frame) :
                  /\ MoneyCleaned(raw[i].budget, df.frame[i].budget)
                  /\ MoneyCleaned(raw[i].gross, df.frame[i].gross)
                  /\ ScoreCleaned(raw[i].score, df.frame[i].score)
                  /\ ~(Parses(raw[i].budget) /\ raw[i].budget.num < 0)
                        => df.frame[i].budget.v >= 0
                  /\ ~(Parses(raw[i].gross) /\ raw[i].gross.num < 0)
                        => df.frame[i].gross.v >= 0

\* A cleaned table with a row whose budget was missing, whose gross was no
\* number and one whose budget was a number of dollars.
C5_Witness ==
    /\ pc = "sidebar"
    /\ Len(df.frame) = 2
    /\ \E i, j \in 1..Len(df.frame) :
          LET raw == SelectSeq(source, YearInRange)
          IN  /\ raw[i].budget.kind = "missing"
              /\ raw[i].gross.kind = "text"
              /\ df.frame[i].budget = F(0)
              /\ raw[j].budget.kind = "num"
              /\ df.frame[j].budget.v > 0

SeqMin(a, b) == IF a < b THEN a ELSE b

\* T is a choice of the TopN most frequent genres of the rows f
IsTopChoice(f, T) ==
    LET genres == {f[i].genre : i \in 1..Len(f)} \ {NaNStr}
        Count(g) == Cardinality({i \in 1..Len(f) : f[i].genre = g})
    IN  /\ T \subseteq genres
        /\ Cardinality(T) = SeqMin(TopN, Cardinality(genres))
        /\ \A g \in T : \A h \in genres \ T : Count(g) >= Count(h)

\* C6: the cleaned table has at most 6 values of genre_filtered; there is a
\* choice of the 5 most frequent genres of the decade's rows such that a
\* row's genre_filtered is its genre when that is among them and "Other"
\* when not (a missing genre too); and the rows of every filtered result
\* are rows of the cleaned table, label included.
C6_TopGenresOrOther ==
    Loaded =>
        /\ Cardinality({r.genre_filtered : r \in RowSet(df.frame)}) <= TopN + 1
        /\ \E T \in SUBSET {r.genre : r \in RowSet(df.frame)} :
              /\ IsTopChoice(df.frame, T)
              /\ \A r \in RowSet(df.frame) :
                    r.genre_filtered = IF r.genre \in T THEN r.genre ELSE "Other"
        /\ PostFilter =>
              \A r \in RowSet(filtered_df) : r \in RowSet(cache.result.frame)

\* A filtered result, under a narrowed selection, with a row labelled
\* "Other" whose genre is a sixth genre, of a table of six labels in which
\* one genre has more rows than another.
C6_Witness ==
    /\ pc = "table"
    /\ Cardinality(genre_options(df.frame)) = TopN + 1
    /\ criteria.selected_genres # genre_options(df.frame)
    /\ \E r \in RowSet(filtered_df) :
          r.genre_filtered = "Other" /\ r.genre \notin {"Other", NaNStr}
    /\ \E r, q \in RowSet(df.frame) :
          GenreCount(df.frame, r.genre) > GenreCount(df.frame, q.genre)
             /\ q.genre # NaNStr

\* what holds of the cache, df and filtered_df in every state (used by C7)
C7_State ==
    /\ cache.loaded => cache.result = load_data(source)
    /\ Loaded => df = cache.result
    /\ PostFilter =>
          filtered_df = filter_data(cache.result.frame, session.values)

\* C7: across every sequence of widget changes and reruns, the cache of
\* load_data, once filled, never changes and holds the cleaned table of the
\* file (a second load_data gives the same table); no section of the script
\* changes df; and after every run's filter the filtered set is filter_data
\* of the cleaned table under the widgets' current values alone.
C7_CleanedOncePureView ==
    /\ []C7_State
    /\ [][cache.loaded => cache' = cache]_vars
    /\ [][(Loaded /\ pc' \notin {"load", "error"}) => df' = df]_vars

\* A later run of a session, on the cached table, under values the user
\* changed, with rows kept and rows dropped.
C7_Witness ==
    /\ pc = "done"
    /\ session.values # DefaultCriteria(cache.result.frame)
    /\ session.values.search_keyword # <<>>
    /\ Len(filtered_df) = 1
    /\ Len(df.frame) = 2

--------------------------------------------------------------------------
(* Reading the export back *)

RECURSIVE Split(_, _, _, _, _)
Split(line, i, cur, inq, out) ==
    IF i > Len(line) THEN Append(out, cur)
    ELSE IF line[i] = "\"" THEN Split(line, i + 1, cur, ~inq, out)
    ELSE IF line[i] = "," /\ ~inq THEN Split(line, i + 1, <<>>, inq, Append(out, cur))
    ELSE Split(line, i + 1, Append(cur, line[i]), inq, out)

Fields(line) == Split(line, 1, <<>>, FALSE, <<>>)

DigitValue(ch) == CHOOSE d \in 0..9 : DigitChars[d + 1] = ch

RECURSIVE DigitsValue(_)
DigitsValue(t) ==
    IF t = <<>> THEN 0
    ELSE 10 * DigitsValue(SubSeq(t, 1, Len(t) - 1)) + DigitValue(t[Len(t)])

ParseNumber(t) ==
    IF t = <<>> THEN NaN
    ELSE LET neg == t[1] = "-"
             body == IF neg THEN Tail(t) ELSE t
             dot == IF Has(body, ".")
                    THEN CHOOSE i \in 1..Len(body) : body[i] = "."
                    ELSE Len(body) + 1
             whole == SubSeq(body, 1, dot - 1)
             frac == SubSeq(body, dot + 1, Len(body))
             v == DigitsValue(whole) * Scale
                    + DigitsValue(frac) * Pow10(3 - Len(frac))
         IN  F(IF neg THEN -v ELSE v)

ParseField(col, t) ==
    IF IsNumberColumn(col) THEN ParseNumber(t)
    ELSE IF IsTextColumn(col) THEN t
    ELSE IF t = <<>> THEN NaNStr ELSE t[1]

\* the names of the header line
HeaderOf(lines) ==
    LET fs == Fields(lines[1]) IN [i \in 1..Len(fs) |-> ParseField("name", fs[i])]

\* the value of column col in line k of the export
Reread(lines, k, col) ==
    LET header == HeaderOf(lines)
        at == CHOOSE i \in 1..Len(header) : header[i] = col
    IN  ParseField(col, Fields(lines[k])[at])

\* C8 as the specification states it: the export of a filtered set that is
\* not empty has the header name, year, genre, score, director, star,
\* budget, gross and, row for row, those values of the filtered rows with
\* the numbers rounded to 2 decimals.
C8_ExportRounded ==
    (PostExport /\ filtered_df # <<>>) =>
        /\ Len(csv) = Len(filtered_df) + 1
        /\ HeaderOf(csv) = display_cols
        /\ \A i \in 1..Len(filtered_df) :
              /\ Len(Fields(csv[i + 1])) = Len(display_cols)
              /\ \A c \in 1..Len(display_cols) :
                    Reread(csv, i + 1, display_cols[c])
                        = DisplayRow(filtered_df[i])[display_cols[c]]

\* C8, amended: the export is offered exactly when the filtered set is not
\* empty; its header is every column of the cleaned table in the table's
\* order (the file's columns, then genre_filtered); it has one line per
\* filtered row, in order, with the numbers as they are, not rounded; and
\* reading it back gives every value of every filtered row, so also the
\* eight displayed values rounded to 2 decimals.
C8_ExportAllColumnsExact ==
    PostExport =>
        /\ (filtered_df = <<>>) <=> (csv = <<>>)
        /\ filtered_df # <<>> =>
              /\ Len(csv) = Len(filtered_df) + 1
              /\ HeaderOf(csv) = Columns
              /\ \A i \in 1..Len(filtered_df) :
                    /\ Len(Fields(csv[i + 1])) = Len(Columns)
                    /\ \A c \in 1..Len(Columns) :
                          Reread(csv, i + 1, Columns[c]) = filtered_df[i][Columns[c]]
                    /\ \A c \in 1..Len(display_cols) :
                          IsNumberColumn(display_cols[c]) =>
                              round(Reread(csv, i + 1, display_cols[c]), Decimals)
                                  = DisplayRow(filtered_df[i])[display_cols[c]]

\* An export of two rows: a budget of three decimals, a star with a comma in
\* it, a missing director and a missing genre or score.
C8_Witness ==
    /\ pc = "chart1"
    /\ Len(csv) = 3
    /\ \E r \in RowSet(filtered_df) : r.budget.v % 10 # 0
    /\ \E r \in RowSet(filtered_df) : Has(r.star, ",") /\ r.director = NaNText

FilterRan ==
    PostFilter \/ (pc = "error" /\ error \in {"ValueError", "IndexError"})

\* C9: a run whose filtered set is empty ends in no error: no export is
\* offered, no detail is looked up, and the table, the three charts and the
\* yearly averages are done, empty.
C9_EmptyIsNoError ==
    (FilterRan /\ filtered_df = <<>>) =>
        /\ pc # "error"
        /\ PostExport => csv = <<>>
        /\ pc = "done" =>
              /\ movie_detail = <<>>
              /\ table_view = <<>>
              /\ box_data = <<>>
              /\ high_perf = <<>>
              /\ yearly_data = <<>>

RECURSIVE SumOver(_, _, _, _)
SumOver(f, I, y, col) ==
    IF I = {} THEN 0
    ELSE LET i == CHOOSE j \in I : TRUE
         IN  (IF f[i].year.v = y THEN f[i][col].v ELSE 0) + SumOver(f, I \ {i}, y, col)

CountOf(f, y) == Cardinality({i \in 1..Len(f) : f[i].year.v = y})

\* C10: after chart 3, yearly_data has one entry for each year of the
\* filtered set and no other, in rising order of the year, and the entry's
\* budget and gross are the sums of that year's filtered rows over their
\* number.
C10_YearlyMeans ==
    PostCharts =>
        /\ {yearly_data[k].year.v : k \in 1..Len(yearly_data)}
              = {r.year.v : r \in RowSet(filtered_df)}
        /\ \A k \in 1..(Len(yearly_data) - 1) :
              yearly_data[k].year.v < yearly_data[k + 1].year.v
        /\ \A k \in 1..Len(yearly_data) :
              LET e == yearly_data[k]
                  all == 1..Len(filtered_df)
              IN  /\ ~e.budget.nan /\ ~e.gross.nan
                  /\ e.budget.den = CountOf(filtered_df, e.year.v)
                  /\ e.gross.den = CountOf(filtered_df, e.year.v)
                  /\ e.budget.num = SumOver(filtered_df, all, e.year.v, "budget")
                  /\ e.gross.num = SumOver(filtered_df, all, e.year.v, "gross")

\* Averages over two rows of one year.
C10_Witness ==
    /\ pc = "done"
    /\ Len(filtered_df) = 2
    /\ Len(yearly_data) = 1
    /\ yearly_data[1].budget.den = 2
    /\ yearly_data[1].budget.num > 0

\* (C10, a second case) Averages of two years, the later year's row first
\* in the table.
C10_WitnessTwoYears ==
    /\ pc = "done"
    /\ Len(yearly_data) = 2
    /\ filtered_df[1].year.v > filtered_df[2].year.v

====
